---- MODULE Spec2Model ----
(***************************************************************************)
(* The Weekly Spaceman task API (server.js): the in-memory task collection *)
(* and its four Express handlers, GET/POST/PUT/DELETE on /tasks.           *)
(*                                                                         *)
(* JSON values are tagged tuples of strings, so that values of different   *)
(* JavaScript types can sit in the same field and be compared:             *)
(*   <<"undefined">>, <<"null">>, <<"num", d>>, <<"str", c1, ..., cn>>.     *)
(* A string is the tuple of its characters.  The characters "W200" and     *)
(* "W2000" stand for a run of 200 / 2000 non-blank characters, and a stage *)
(* name or a date is written as one character of its real width, so that   *)
(* the length limits of the handlers are exercised with short tuples.      *)
(* Timestamps are the millisecond clock values that toISOString() prints   *)
(* (fixed-width output: the order of the strings is the order of the       *)
(* clock values).  A uuid is the ordinal of the uuidv4() call that made it.*)
(***************************************************************************)
EXTENDS Naturals, Sequences, FiniteSets, TLC

VARIABLES
    tasks,       \* server.js `const tasks = []`: the collection, a sequence
    now,         \* the millisecond clock read by `new Date()`
    uuidCount,   \* number of uuids handed out by uuidv4() so far
    req,         \* the last request handled: [method, id, body, query]
    res,         \* the response to it: [status, body]
    preTasks,    \* history: the collection as it was when req arrived
    created,     \* history: the tasks returned by successful POSTs, in order
    deleted,     \* history: ids removed by successful DELETEs
    preDeleted,  \* history: `deleted` as it was when req arrived
    calls,       \* number of requests handled so far
    variant,        \* which client runs: "board" (project_management_app.jsx),
                    \* "merge" (App.jsx), "local" (the first, server-less board), "none"
    clientTasks,    \* the client's `tasks` state: its copy of the list
    loading,        \* useState(true)
    error,          \* useState(null): null or the message shown in the banner
    isDialogOpen,   \* useState(false)
    editingTask,    \* useState(null): NoTask or the task object of the selected card
    formData,       \* the five form fields
    submitting,     \* useState(false)
    draggedTaskId,  \* useState(null) / the drag's dataTransfer 'taskId'
    dragging,       \* the browser's drag session: a card is held by the pointer
    inflight,       \* the async handler calls awaiting fetch(), in order of issue
    last,           \* history: the last client step, [op, id, arg, caller], and
                    \* `failed`: some call has failed so far
    ops             \* number of user events so far

serverVars == <<tasks, now, uuidCount, req, res, preTasks, created, deleted, preDeleted, calls>>

clientVars ==
    <<variant, clientTasks, loading, error, isDialogOpen, editingTask, formData,
      submitting, draggedTaskId, dragging, inflight, last, ops>>

vars == <<serverVars, clientVars>>

(* ------------------------------ bounds -------------------------------- *)
MaxCalls == 3
MaxClock == 1
MaxOps == 4
MaxLocalOps == 6

(* --------------------------- JSON values ------------------------------ *)
Undefined == <<"undefined">>
Null == <<"null">>
Num(d) == <<"num", d>>
Str(cs) == <<"str">> \o cs

IsString(v) == v[1] = "str"
Chars(v) == Tail(v)

\* JavaScript ToBoolean on the values above
Truthy(v) ==
    CASE v[1] = "str" -> Len(v) > 1
      [] v[1] = "num" -> v[2] # "0"
      [] OTHER -> FALSE

\* width in UTF-16 units of one modelled character
Width(c) ==
    CASE c = "W200" -> 200
      [] c = "W2000" -> 2000
      [] c = "2026-11-05" -> 10
      [] OTHER -> 1

RECURSIVE SumWidth(_)
SumWidth(cs) == IF cs = <<>> THEN 0 ELSE Width(Head(cs)) + SumWidth(Tail(cs))

\* String.prototype.length
StrLength(v) == SumWidth(Chars(v))

RECURSIVE TrimStart(_)
TrimStart(cs) == IF cs # <<>> /\ Head(cs) = " " THEN TrimStart(Tail(cs)) ELSE cs

RECURSIVE TrimEnd(_)
TrimEnd(cs) ==
    IF cs # <<>> /\ cs[Len(cs)] = " " THEN TrimEnd(SubSeq(cs, 1, Len(cs) - 1)) ELSE cs

\* String.prototype.trim
Trim(v) == Str(TrimEnd(TrimStart(Chars(v))))

LowerChar(c) == IF c = "A" THEN "a" ELSE IF c = "B" THEN "b" ELSE c

\* String.prototype.toLowerCase
ToLowerCase(v) == Str([i \in 1..Len(Chars(v)) |-> LowerChar(Chars(v)[i])])

\* String.prototype.includes
Includes(v, w) ==
    \E i \in 0..(Len(Chars(v)) - Len(Chars(w))) :
        SubSeq(Chars(v), i + 1, i + Len(Chars(w))) = Chars(w)

\* isNaN(Date.parse(s)) for the strings used as dates here
DateParseIsNaN(v) == v # Str(<<"2026-11-05">>)

(* --------------------------- configuration ---------------------------- *)
VALID_STATUSES ==
    << "Idea", "Assigned", "Drafting", "Editing", "Fact-Check", "Scheduled", "Published" >>

\* VALID_STATUSES.includes(status)
ValidStatus(v) == \E i \in 1..Len(VALID_STATUSES) : v = Str(<<VALID_STATUSES[i]>>)

Stages == { Str(<<VALID_STATUSES[i]>>) : i \in 1..Len(VALID_STATUSES) }

(* ------------------------- request bodies ----------------------------- *)
\* property read with destructuring: a missing key reads as undefined
Get(body, k) == IF k \in DOMAIN body THEN body[k] ELSE Undefined

\* destructuring default: `k = dflt` applies only to undefined
GetOr(body, k, dflt) == IF Get(body, k) = Undefined THEN dflt ELSE Get(body, k)

EmptyBody == [k \in {} |-> Undefined]

One(k, v) == [x \in {k} |-> v]

\* object spread { ...a, ...b }
Spread(a, b) == [k \in DOMAIN a \cup DOMAIN b |-> IF k \in DOMAIN b THEN b[k] ELSE a[k]]

Ids(ts) == { ts[i].id : i \in 1..Len(ts) }

\* tasks.findIndex(task => task.id === id); 0 stands for -1
FindIndex(ts, id) ==
    IF \E i \in 1..Len(ts) : ts[i].id = id
    THEN CHOOSE i \in 1..Len(ts) : ts[i].id = id /\ \A j \in 1..(i - 1) : ts[j].id # id
    ELSE 0

(* ------------------------------ uuid ---------------------------------- *)
\* uuidv4(): a value no earlier call returned
uuidv4 == uuidCount + 1

(* --------------------------- POST /tasks ------------------------------ *)
Err(code, msg) == [status |-> code, body |-> [error |-> msg]]

InvalidStatusMsg ==
    "Invalid status. Must be one of: Idea, Assigned, Drafting, Editing, Fact-Check, Scheduled, Published"

\* mutant: only `if (!title)`, as in the first version of the handler
PostTitleRejected_OnlyFalsy(title) == ~Truthy(title)

\* if (!title || typeof title !== 'string' || !title.trim())
PostTitleRejected(title) ==
    ~Truthy(title) \/ ~IsString(title) \/ ~Truthy(Trim(title))

\* if (description && description.length > 2000); a number has no length
PostDescriptionRejected(description) ==
    Truthy(description) /\ IsString(description) /\ StrLength(description) > 2000

\* mutant: no date validation, as in the first version of the handler
DueDateRejected_Never(dueDate) == FALSE

\* if (dueDate && isNaN(Date.parse(dueDate)))
DueDateRejected(dueDate) == Truthy(dueDate) /\ DateParseIsNaN(dueDate)

\* mutant: the fields are stored as sent, without trim()
NewTask_Untrimmed(title, description, assignee, dueDate, status, id, t1, t2) ==
    [ id |-> id,
      title |-> title,
      description |-> description,
      assignee |-> assignee,
      dueDate |-> dueDate,
      status |-> status,
      createdAt |-> t1,
      updatedAt |-> t2 ]

\* the object literal `newTask`; t1 and t2 are the two clock readings
NewTask(title, description, assignee, dueDate, status, id, t1, t2) ==
    [ id |-> id,
      title |-> Trim(title),
      description |-> Trim(description),
      assignee |-> Trim(assignee),
      dueDate |-> dueDate,
      status |-> status,
      createdAt |-> t1,
      updatedAt |-> t2 ]

\* mutant: tasks.unshift(newTask)
Push_Unshift(ts, t) == <<t>> \o ts

\* tasks.push(newTask)
Push(ts, t) == Append(ts, t)

\* the handler's response and the collection it leaves
PostResult(ts, body, id, t1, t2) ==
    LET title == Get(body, "title")
        description == GetOr(body, "description", Str(<<>>))
        assignee == GetOr(body, "assignee", Str(<<>>))
        dueDate == GetOr(body, "dueDate", Str(<<>>))
        status == GetOr(body, "status", Str(<<"Idea">>))
    IN  IF PostTitleRejected(title)
        THEN [r |-> Err(400, "Title is required and must be a non-empty string"), ts |-> ts]
        ELSE IF StrLength(title) > 200
        THEN [r |-> Err(400, "Title must be 200 characters or less"), ts |-> ts]
        ELSE IF PostDescriptionRejected(description)
        THEN [r |-> Err(400, "Description must be 2000 characters or less"), ts |-> ts]
        ELSE IF ~ValidStatus(status)
        THEN [r |-> Err(400, InvalidStatusMsg), ts |-> ts]
        ELSE IF DueDateRejected(dueDate)
        THEN [r |-> Err(400, "Invalid date format for dueDate"), ts |-> ts]
        ELSE IF ~IsString(description) \/ ~IsString(assignee)
        THEN \* description.trim() / assignee.trim() throws a TypeError: catch block
             [r |-> Err(500, "Internal server error"), ts |-> ts]
        ELSE LET newTask == NewTask(title, description, assignee, dueDate, status, id, t1, t2)
             IN  [r |-> [status |-> 201, body |-> newTask], ts |-> Push(ts, newTask)]

(* -------------------------- PUT /tasks/:id ---------------------------- *)
\* if (title !== undefined) { typeof title !== 'string' || !title.trim() }
PutTitleRejected(title) ==
    title # Undefined /\ (~IsString(title) \/ ~Truthy(Trim(title)))

\* mutant: PUT has no length check on the title
PutTitleTooLong_Never(title) == FALSE

PutTitleTooLong(title) == title # Undefined /\ StrLength(title) > 200

\* description !== undefined && description.length > 2000 throws on null
PutDescriptionThrows(description) == description = Null

PutDescriptionRejected(description) ==
    description # Undefined /\ IsString(description) /\ StrLength(description) > 2000

\* mutant: no status validation, as in the first version of the handler
PutStatusRejected_Never(status) == FALSE

PutStatusRejected(status) == status # Undefined /\ ~ValidStatus(status)

\* mutant: `updatedAt: new Date()` is missing, an updatedAt in the body wins
UpdatedTask_KeepBodyUpdatedAt(existingTask, body, t) ==
    [ Spread(existingTask, body) EXCEPT
        !.id = existingTask.id,
        !.createdAt = existingTask.createdAt ]

\* mutant: `id: existingTask.id` is missing, an id in the body wins
UpdatedTask_KeepBodyId(existingTask, body, t) ==
    [ Spread(existingTask, body) EXCEPT
        !.createdAt = existingTask.createdAt,
        !.updatedAt = t ]

\* mutant: `createdAt: existingTask.createdAt` is missing
UpdatedTask_KeepBodyCreatedAt(existingTask, body, t) ==
    [ Spread(existingTask, body) EXCEPT
        !.id = existingTask.id,
        !.updatedAt = t ]

\* mutant: the spreads are in the wrong order, { ...req.body, ...existingTask }
UpdatedTask_ReversedSpread(existingTask, body, t) ==
    [ Spread(body, existingTask) EXCEPT
        !.id = existingTask.id,
        !.createdAt = existingTask.createdAt,
        !.updatedAt = t ]

\* { ...existingTask, ...req.body, id, createdAt, updatedAt: new Date() }
UpdatedTask(existingTask, body, t) ==
    [ Spread(existingTask, body) EXCEPT
        !.id = existingTask.id,
        !.createdAt = existingTask.createdAt,
        !.updatedAt = t ]

\* if (x) x = x.trim() throws when x is truthy and not a string
TrimThrows(task) ==
    \E k \in {"title", "description", "assignee"} : Truthy(task[k]) /\ ~IsString(task[k])

\* mutant: the trim lines are missing
TrimFields_None(task) == task

\* the three `if (updatedTask.f) updatedTask.f = updatedTask.f.trim()` lines
TrimFields(task) ==
    [k \in DOMAIN task |->
        IF k \in {"title", "description", "assignee"} /\ Truthy(task[k])
        THEN Trim(task[k])
        ELSE task[k]]

\* the validation block of the handler: the error it answers, or status 0
PutRejection(body) ==
    LET title == Get(body, "title")
        description == Get(body, "description")
        status == Get(body, "status")
        dueDate == Get(body, "dueDate")
    IN  IF PutTitleRejected(title)
        THEN Err(400, "Title must be a non-empty string")
        ELSE IF PutTitleTooLong(title)
        THEN Err(400, "Title must be 200 characters or less")
        ELSE IF PutDescriptionThrows(description)
        THEN Err(500, "Internal server error")
        ELSE IF PutDescriptionRejected(description)
        THEN Err(400, "Description must be 2000 characters or less")
        ELSE IF PutStatusRejected(status)
        THEN Err(400, InvalidStatusMsg)
        ELSE IF dueDate # Undefined /\ DueDateRejected(dueDate)
        THEN Err(400, "Invalid date format for dueDate")
        ELSE [status |-> 0, body |-> [error |-> ""]]

\* mutant: the body is validated before the id is looked up
PutResult_ValidateFirst(ts, id, body, t) ==
    LET taskIndex == FindIndex(ts, id)
    IN  IF PutRejection(body).status # 0
        THEN [r |-> PutRejection(body), ts |-> ts]
        ELSE IF taskIndex = 0
        THEN [r |-> Err(404, "Task not found"), ts |-> ts]
        ELSE LET updatedTask == UpdatedTask(ts[taskIndex], body, t)
             IN  IF TrimThrows(updatedTask)
                 THEN [r |-> Err(500, "Internal server error"), ts |-> ts]
                 ELSE [r |-> [status |-> 200, body |-> TrimFields(updatedTask)],
                       ts |-> [ts EXCEPT ![taskIndex] = TrimFields(updatedTask)]]

\* mutant: the task is stored before the trim lines run, so a throw leaves it stored
PutResult_StoresBeforeTrim(ts, id, body, t) ==
    LET taskIndex == FindIndex(ts, id)
    IN  IF taskIndex = 0
        THEN [r |-> Err(404, "Task not found"), ts |-> ts]
        ELSE IF PutRejection(body).status # 0
        THEN [r |-> PutRejection(body), ts |-> ts]
        ELSE LET updatedTask == UpdatedTask(ts[taskIndex], body, t)
             IN  IF TrimThrows(updatedTask)
                 THEN [r |-> Err(500, "Internal server error"),
                       ts |-> [ts EXCEPT ![taskIndex] = updatedTask]]
                 ELSE [r |-> [status |-> 200, body |-> TrimFields(updatedTask)],
                       ts |-> [ts EXCEPT ![taskIndex] = TrimFields(updatedTask)]]

\* mutant: the updated task is removed and pushed again, so it moves to the end
PutResult_MovesToEnd(ts, id, body, t) ==
    LET taskIndex == FindIndex(ts, id)
    IN  IF taskIndex = 0
        THEN [r |-> Err(404, "Task not found"), ts |-> ts]
        ELSE IF PutRejection(body).status # 0
        THEN [r |-> PutRejection(body), ts |-> ts]
        ELSE LET updatedTask == UpdatedTask(ts[taskIndex], body, t)
             IN  IF TrimThrows(updatedTask)
                 THEN [r |-> Err(500, "Internal server error"), ts |-> ts]
                 ELSE [r |-> [status |-> 200, body |-> TrimFields(updatedTask)],
                       ts |-> Append(SubSeq(ts, 1, taskIndex - 1)
                                       \o SubSeq(ts, taskIndex + 1, Len(ts)),
                                     TrimFields(updatedTask))]

\* the handler's response and the collection it leaves
PutResult(ts, id, body, t) ==
    LET taskIndex == FindIndex(ts, id)
    IN  IF taskIndex = 0
        THEN [r |-> Err(404, "Task not found"), ts |-> ts]
        ELSE IF PutRejection(body).status # 0
        THEN [r |-> PutRejection(body), ts |-> ts]
        ELSE LET updatedTask == UpdatedTask(ts[taskIndex], body, t)
             IN  IF TrimThrows(updatedTask)
                 THEN [r |-> Err(500, "Internal server error"), ts |-> ts]
                 ELSE [r |-> [status |-> 200, body |-> TrimFields(updatedTask)],
                       ts |-> [ts EXCEPT ![taskIndex] = TrimFields(updatedTask)]]

(* ------------------------- DELETE /tasks/:id -------------------------- *)
\* mutant: tasks.splice(taskIndex) without the count removes the tail too
Splice_ToEnd(ts, i) == SubSeq(ts, 1, i - 1)

\* tasks.splice(taskIndex, 1)
Splice(ts, i) == SubSeq(ts, 1, i - 1) \o SubSeq(ts, i + 1, Len(ts))

\* mutant: the answer carries the message only, as in the first version
DeleteResult_MessageOnly(ts, id) ==
    LET taskIndex == FindIndex(ts, id)
    IN  IF taskIndex = 0
        THEN [r |-> Err(404, "Task not found"), ts |-> ts]
        ELSE [r |-> [status |-> 200, body |-> [message |-> "Task deleted"]],
              ts |-> Splice(ts, taskIndex)]

DeleteResult(ts, id) ==
    LET taskIndex == FindIndex(ts, id)
    IN  IF taskIndex = 0
        THEN [r |-> Err(404, "Task not found"), ts |-> ts]
        ELSE [r |-> [status |-> 200,
                     body |-> [message |-> "Task deleted", task |-> ts[taskIndex]]],
              ts |-> Splice(ts, taskIndex)]

(* -------------------------- GET /api/statuses ------------------------- *)
\* res.json(VALID_STATUSES)
StatusesResult == [status |-> 200, body |-> VALID_STATUSES]

(* ----------------------------- GET /tasks ----------------------------- *)
\* mutant: the predicate does not compare
FilterStatus_All(ts, status) == ts

\* filteredTasks.filter(task => task.status === status)
FilterStatus(ts, status) == SelectSeq(ts, LAMBDA task : task.status = status)

\* task.assignee.toLowerCase().includes(assignee.toLowerCase())
FilterAssignee(ts, assignee) ==
    SelectSeq(ts, LAMBDA task : Includes(ToLowerCase(task.assignee), ToLowerCase(assignee)))

GetResult(ts, query) ==
    LET status == Get(query, "status")
        assignee == Get(query, "assignee")
        byStatus == IF Truthy(status) THEN FilterStatus(ts, status) ELSE ts
    IN  IF ~Truthy(assignee)
        THEN [status |-> 200, body |-> byStatus]
        ELSE IF \E i \in 1..Len(byStatus) : ~IsString(byStatus[i].assignee)
        THEN \* toLowerCase is not a function of null or of a number: catch block
             Err(500, "Internal server error")
        ELSE [status |-> 200, body |-> FilterAssignee(byStatus, assignee)]

(* --------------------------- request inputs --------------------------- *)
ADate == Str(<<"2026-11-05">>)

\* one-field and mixed bodies; every validation branch has a member
Bodies ==
    { One("status", s) : s \in {Str(<<"Editing">>), Str(<<"Bogus">>), Null} }
    \cup { One("title", v) :
             v \in {Str(<<" ", "b", " ">>), Str(<<" ">>), Num("5"), Str(<<"W200", "b">>),
                   Str(<<"W200">>)} }
    \cup { One("description", v) :
             v \in {Str(<<" ", "d">>), Num("0"), Num("5"), Null, Str(<<"W2000", "d">>)} }
    \cup { One("assignee", v) : v \in {Str(<<"A", " ">>), Null, Num("5")} }
    \cup { One("dueDate", v) : v \in {ADate, Str(<<"x">>), Str(<<>>)} }
    \cup { [id |-> i, createdAt |-> 99, updatedAt |-> 0, foo |-> Str(<<"x">>)] : i \in 1..2 }
    \cup { [title |-> Str(<<"b">>), status |-> Str(<<"Bogus">>)],
           [description |-> Null, status |-> Str(<<"Bogus">>)], EmptyBody }

\* bodies sent to PUT: the above and a status change to each stage
PutBodies == Bodies \cup { One("status", s) : s \in Stages }

WithTitle(b) ==
    [k \in DOMAIN b \cup {"title"} |-> IF k \in DOMAIN b THEN b[k] ELSE Str(<<" ", "a", " ">>)]

\* bodies sent to POST: the above with a title added, and titles POST refuses
PostBodies ==
    { WithTitle(b) : b \in Bodies }
    \cup { EmptyBody, One("title", Str(<<>>)), One("title", Null),
           [title |-> Str(<<" ">>), status |-> Str(<<"Editing">>)] }

Queries ==
    { EmptyBody, One("status", Str(<<>>)), One("assignee", Str(<<"a">>)),
      [status |-> Str(<<"Idea">>), assignee |-> Str(<<"a">>)] }
    \cup { One("status", s) : s \in Stages }

\* ids a caller can name: every uuid handed out so far and one never handed out
IdInputs == 1..(uuidCount + 1)

NoQuery == EmptyBody

(* ----------------------- client construction -------------------------- *)
\* the useState initial value of formData, and what resetForm() sets
EmptyForm ==
    [ title |-> Str(<<>>),
      description |-> Str(<<>>),
      assignee |-> Str(<<>>),
      status |-> Str(<<"Idea">>),
      dueDate |-> Str(<<>>) ]

\* a uuid is never 0: null in a variable that holds a task id
NoTaskId == 0

\* null in a variable that holds a task object
NoTask == [id |-> NoTaskId]

NoStep == [op |-> "none", id |-> NoTaskId, arg |-> Null, caller |-> "none", failed |-> FALSE]

\* the useState() initial values of a client; no handler has run
Constructed ==
    /\ clientTasks = <<>>
    /\ loading = TRUE
    /\ error = Null
    /\ isDialogOpen = FALSE
    /\ editingTask = NoTask
    /\ formData = EmptyForm
    /\ submitting = FALSE
    /\ draggedTaskId = NoTaskId
    /\ dragging = FALSE
    /\ inflight = <<>>
    /\ last = NoStep
    /\ ops = 0

(* ------------------------------- actions ------------------------------ *)
\* the server alone, called by arbitrary HTTP clients
Init ==
    /\ variant = "none"
    /\ Constructed
    /\ tasks = <<>>
    /\ now = 0
    /\ uuidCount = 0
    /\ req = [method |-> "NONE", id |-> 0, body |-> EmptyBody, query |-> NoQuery]
    /\ res = [status |-> 0, body |-> <<>>]
    /\ preTasks = <<>>
    /\ created = <<>>
    /\ deleted = {}
    /\ preDeleted = {}
    /\ calls = 0

Handled(method, id, body, query) ==
    /\ calls < MaxCalls
    /\ calls' = calls + 1
    /\ req' = [method |-> method, id |-> id, body |-> body, query |-> query]
    /\ preTasks' = tasks
    /\ preDeleted' = deleted
    /\ UNCHANGED clientVars

\* time passes between and during requests
Tick ==
    /\ now < MaxClock
    /\ now' = now + 1
    /\ UNCHANGED <<tasks, uuidCount, req, res, preTasks, created, deleted, preDeleted, calls>>
    /\ UNCHANGED clientVars

\* app.post('/tasks'): the clock may advance between the two new Date() calls
Post(body) ==
    \E d \in 0..1 :
        LET out == PostResult(tasks, body, uuidv4, now, now + d)
        IN  /\ now + d <= MaxClock
            /\ Handled("POST", 0, body, NoQuery)
            /\ tasks' = out.ts
            /\ res' = out.r
            /\ now' = IF out.r.status = 201 THEN now + d ELSE now
            /\ uuidCount' = IF out.r.status \in {201, 500} THEN uuidCount + 1 ELSE uuidCount
            /\ created' = IF out.r.status = 201 THEN Append(created, out.r.body) ELSE created
            /\ UNCHANGED deleted

\* app.put('/tasks/:id')
Put(id, body) ==
    LET out == PutResult(tasks, id, body, now)
    IN  /\ Handled("PUT", id, body, NoQuery)
        /\ tasks' = out.ts
        /\ res' = out.r
        /\ UNCHANGED <<now, uuidCount, created, deleted>>

\* app.delete('/tasks/:id')
Delete(id) ==
    LET out == DeleteResult(tasks, id)
    IN  /\ Handled("DELETE", id, EmptyBody, NoQuery)
        /\ tasks' = out.ts
        /\ res' = out.r
        /\ deleted' = IF out.r.status = 200 THEN deleted \cup {id} ELSE deleted
        /\ UNCHANGED <<now, uuidCount, created>>

\* app.get('/tasks')
GetTasks(query) ==
    /\ Handled("GET", 0, EmptyBody, query)
    /\ res' = GetResult(tasks, query)
    /\ UNCHANGED <<tasks, now, uuidCount, created, deleted>>

Next ==
    \/ Tick
    \/ \E body \in PostBodies : Post(body)
    \/ \E id \in IdInputs, body \in PutBodies : Put(id, body)
    \/ \E id \in IdInputs : Delete(id)
    \/ \E query \in Queries : GetTasks(query)

Spec == Init /\ [][Next]_vars

(* ============================== claims ================================ *)
TaskOf(ts, id) == ts[FindIndex(ts, id)]

Known == req.id \in Ids(preTasks)

\* position of an id in the order of creation
CreatedPos(id) == CHOOSE i \in 1..Len(created) : created[i].id = id

NoDuplicates(seq) == \A i, j \in 1..Len(seq) : i # j => seq[i] # seq[j]

\* C1: no two tasks of the collection share an id, and the id a successful
\* POST returns was never returned before, not even for a task deleted since.
C1_UniqueIds ==
    /\ NoDuplicates([i \in 1..Len(tasks) |-> tasks[i].id])
    /\ NoDuplicates([i \in 1..Len(created) |-> created[i].id])
    /\ (req.method = "POST" /\ res.status = 201) =>
           /\ res.body = created[Len(created)]
           /\ res.body.id \notin Ids(preTasks) \cup preDeleted

C1_Witness ==
    /\ req.method = "POST" /\ res.status = 201
    /\ preDeleted # {}
    /\ Len(created) = 2

\* a title that is missing, empty or only blanks
BlankTitle(body) ==
    \/ "title" \notin DOMAIN body
    \/ /\ IsString(body.title)
       /\ \A i \in 1..Len(Chars(body.title)) : Chars(body.title)[i] = " "

\* C2: a POST whose title is missing, empty or only whitespace answers 400
\* and leaves the collection as it was.
C2_BlankTitleRejected ==
    (req.method = "POST" /\ BlankTitle(req.body)) =>
        (res.status = 400 /\ tasks = preTasks)

C2_Witness ==
    /\ req.method = "POST"
    /\ Get(req.body, "title") = Str(<<" ">>)
    /\ res.status = 400
    /\ Len(tasks) > 0

\* C3: a PUT on an id that is not in the collection answers 404, whatever
\* the body, and leaves the collection as it was.
C3_UnknownIdNotFound ==
    (req.method = "PUT" /\ ~Known) => (res.status = 404 /\ tasks = preTasks)

C3_Witness ==
    /\ req.method = "PUT" /\ ~Known
    /\ Get(req.body, "status") = Str(<<"Bogus">>)
    /\ res.status = 404
    /\ Len(tasks) > 0

\* C4: a PUT {status: S} with S a stage, on a known id, changes the status
\* and updatedAt of that task and nothing else in the collection.
C4_StatusOnlyUpdate ==
    (/\ req.method = "PUT" /\ Known
     /\ DOMAIN req.body = {"status"}
     /\ req.body.status \in Stages) =>
        /\ res.status = 200
        /\ Len(tasks) = Len(preTasks)
        /\ \A i \in 1..Len(preTasks) :
              IF preTasks[i].id = req.id
              THEN tasks[i] = [preTasks[i] EXCEPT !.status = req.body.status,
                                                  !.updatedAt = tasks[i].updatedAt]
              ELSE tasks[i] = preTasks[i]

C4_Witness ==
    /\ req.method = "PUT" /\ Known
    /\ req.body = One("status", Str(<<"Published">>))
    /\ Len(tasks) = 2
    /\ TaskOf(tasks, req.id).status # TaskOf(preTasks, req.id).status
    /\ TaskOf(tasks, req.id).updatedAt # TaskOf(preTasks, req.id).updatedAt

\* C5: a DELETE on a known id removes that task and no other; a deleted id
\* is in no later collection or GET answer; a DELETE of an id deleted
\* before answers 404.
C5_DeleteRemovesForGood ==
    /\ (req.method = "DELETE" /\ Known) =>
           /\ res.status = 200
           /\ Len(tasks) = Len(preTasks) - 1
           /\ tasks = SelectSeq(preTasks, LAMBDA task : task.id # req.id)
    /\ \A id \in deleted : id \notin Ids(tasks)
    /\ (req.method = "GET" /\ res.status = 200) =>
           \A i \in 1..Len(res.body) : res.body[i].id \notin deleted
    /\ (req.method = "DELETE" /\ req.id \in preDeleted) => res.status = 404

C5_Witness ==
    /\ req.method = "DELETE"
    /\ req.id \in preDeleted
    /\ res.status = 404
    /\ calls = 3

\* C6: GET /tasks?status=S, S a stage, answers the tasks whose status is S,
\* all of them, no others, in the order of their creation.
C6_StatusFilterExact ==
    (/\ req.method = "GET"
     /\ DOMAIN req.query = {"status"}
     /\ req.query.status \in Stages) =>
        /\ res.status = 200
        /\ \A i \in 1..Len(res.body) :
              /\ res.body[i].status = req.query.status
              /\ \E j \in 1..Len(tasks) : tasks[j] = res.body[i]
        /\ \A j \in 1..Len(tasks) :
              tasks[j].status = req.query.status =>
                  \E i \in 1..Len(res.body) : res.body[i] = tasks[j]
        /\ \A i, j \in 1..Len(res.body) :
              i < j => CreatedPos(res.body[i].id) < CreatedPos(res.body[j].id)

C6_Witness ==
    /\ req.method = "GET"
    /\ req.query = One("status", Str(<<"Editing">>))
    /\ res.status = 200
    /\ Len(res.body) = 1
    /\ Len(tasks) = 2

\* C7 (as claimed): every successful PUT leaves updatedAt strictly greater
\* than it was before the call.
C7_UpdatedAtStrictlyGreater ==
    (req.method = "PUT" /\ res.status = 200) =>
        TaskOf(tasks, req.id).updatedAt > TaskOf(preTasks, req.id).updatedAt

PatchFields == {"title", "description", "assignee", "dueDate", "status"}

OnePatch ==
    /\ req.method = "PUT" /\ res.status = 200
    /\ Cardinality(DOMAIN req.body) = 1
    /\ DOMAIN req.body \subseteq PatchFields

\* the task with the id of the request in the answer of a GET /tasks made now
Fetched == TaskOf(GetResult(tasks, NoQuery).body, req.id)

OthersKept(sent) ==
    /\ DOMAIN Fetched = DOMAIN TaskOf(preTasks, req.id)
    /\ \A k \in DOMAIN Fetched \ {sent, "updatedAt"} :
          Fetched[k] = TaskOf(preTasks, req.id)[k]

\* C8 (as claimed): after a successful PUT carrying one patch field, a GET
\* returns the task with that field equal to the value sent and every other
\* field but updatedAt as before.
C8_SentValueStored ==
    OnePatch =>
        \A k \in DOMAIN req.body :
            /\ GetResult(tasks, NoQuery).status = 200
            /\ Fetched[k] = req.body[k]
            /\ OthersKept(k)

\* what is stored for a value sent in field k
Normalised(k, v) ==
    IF k \in {"title", "description", "assignee"} /\ IsString(v)
    THEN Str(TrimEnd(TrimStart(Chars(v))))
    ELSE v

\* C8 (amended): the field holds the value sent, with leading and trailing
\* whitespace removed when it is a title, description or assignee string;
\* every other field but updatedAt is as before.
C8_SentValueStoredTrimmed ==
    OnePatch =>
        \A k \in DOMAIN req.body :
            /\ GetResult(tasks, NoQuery).status = 200
            /\ Fetched[k] = Normalised(k, req.body[k])
            /\ OthersKept(k)

C8_Witness ==
    /\ OnePatch
    /\ req.body = One("title", Str(<<" ", "b", " ">>))
    /\ Fetched.title = Str(<<"b">>)
    /\ TaskOf(preTasks, req.id).title = Str(<<"a">>)

BadStatusSent ==
    /\ req.method \in {"POST", "PUT"}
    /\ "status" \in DOMAIN req.body
    /\ req.body.status \notin Stages

AllStatusesValid == \A i \in 1..Len(tasks) : tasks[i].status \in Stages

C10_IdCreatedAtImmutable ==
    /\ \A i \in 1..Len(tasks) :
          \E j \in 1..Len(created) :
              /\ created[j].id = tasks[i].id
              /\ created[j].createdAt = tasks[i].createdAt
    /\ req.method = "PUT" =>
          /\ Len(tasks) = Len(preTasks)
          /\ \A i \in 1..Len(tasks) :
                /\ tasks[i].id = preTasks[i].id
                /\ tasks[i].createdAt = preTasks[i].createdAt

C10_Witness ==
    /\ req.method = "PUT" /\ res.status = 200
    /\ "id" \in DOMAIN req.body /\ "createdAt" \in DOMAIN req.body
    /\ req.body.id # req.id
    /\ req.body.id \in Ids(tasks)
    /\ req.body.createdAt # TaskOf(tasks, req.id).createdAt

\* a value no title may have: not a string, blank, or longer than 200
InvalidTitle(v) ==
    \/ ~IsString(v)
    \/ \A i \in 1..Len(Chars(v)) : Chars(v)[i] = " "
    \/ StrLength(v) > 200

\* the payload of the request breaks a rule of one of the validated fields
InvalidPayload ==
    \/ req.method = "POST" /\ "title" \notin DOMAIN req.body
    \/ "title" \in DOMAIN req.body /\ InvalidTitle(req.body.title)
    \/ /\ "description" \in DOMAIN req.body
       /\ IsString(req.body.description)
       /\ StrLength(req.body.description) > 2000
    \/ "status" \in DOMAIN req.body /\ req.body.status \notin Stages
    \/ /\ "dueDate" \in DOMAIN req.body
       /\ IsString(req.body.dueDate)
       /\ req.body.dueDate \notin {Str(<<>>), ADate}

HasErrorMessage == DOMAIN res.body = {"error"} /\ res.body.error # ""

C12_GetAlways200 == req.method = "GET" => res.status = 200

\* C13 (as claimed): DELETE on a known id answers 200 with a message and a
\* field deletedTask holding the removed task as it was stored.
C13_DeletedTaskField ==
    (req.method = "DELETE" /\ Known) =>
        /\ res.status = 200
        /\ "message" \in DOMAIN res.body
        /\ "deletedTask" \in DOMAIN res.body
        /\ res.body.deletedTask = TaskOf(preTasks, req.id)

\* C13 (amended): the field that holds the removed task is named task.
C13_TaskField ==
    (req.method = "DELETE" /\ Known) =>
        /\ res.status = 200
        /\ "message" \in DOMAIN res.body
        /\ "task" \in DOMAIN res.body
        /\ res.body.task = TaskOf(preTasks, req.id)
        /\ res.body.task.id \notin Ids(tasks)

C13_Witness ==
    /\ req.method = "DELETE" /\ Known
    /\ res.status = 200
    /\ Len(preTasks) = 2
    /\ res.body.task = preTasks[1]
    /\ tasks = <<preTasks[2]>>

\* a filter is provided when its query parameter is a non-empty string
Provided(k) == Truthy(Get(req.query, k))

Matches(task) ==
    /\ Provided("status") => task.status = req.query.status
    /\ Provided("assignee") =>
          /\ IsString(task.assignee)
          /\ Includes(ToLowerCase(task.assignee), ToLowerCase(req.query.assignee))

\* C14 (as claimed): GET /tasks answers exactly the tasks that match every
\* provided filter, in creation order, all tasks when there is no filter, and
\* leaves the collection as it was.
C14_FiltersExact ==
    req.method = "GET" =>
        /\ tasks = preTasks
        /\ res.status = 200
        /\ res.body = SelectSeq(tasks, Matches)
        /\ \A i, j \in 1..Len(res.body) :
              i < j => CreatedPos(res.body[i].id) < CreatedPos(res.body[j].id)

TaskFields ==
    {"id", "title", "description", "assignee", "dueDate", "status", "createdAt", "updatedAt"}

\* C15 (as claimed): every stored task has the eight task fields and no other.
C15_ExactlyEightFields == \A i \in 1..Len(tasks) : DOMAIN tasks[i] = TaskFields

\* a string without a blank at either end (any other value has no blanks)
NoOuterBlank(v) ==
    (IsString(v) /\ Chars(v) # <<>>) =>
        (Chars(v)[1] # " " /\ Chars(v)[Len(Chars(v))] # " ")

\* C16: title, description and assignee of every stored task have no leading
\* and no trailing whitespace.
C16_StoredTrimmed ==
    \A i \in 1..Len(tasks) :
        \A k \in {"title", "description", "assignee"} : NoOuterBlank(tasks[i][k])

C16_Witness ==
    /\ req.method = "PUT" /\ res.status = 200
    /\ req.body = One("description", Str(<<" ", "d">>))
    /\ TaskOf(tasks, req.id).description = Str(<<"d">>)
    /\ TaskOf(tasks, req.id).title = Str(<<"a">>)
    /\ created[1].id = req.id

\* C17: the title of every stored task is a non-empty string of at most 200
\* characters.
C17_TitleBounds ==
    \A i \in 1..Len(tasks) :
        /\ IsString(tasks[i].title)
        /\ Chars(tasks[i].title) # <<>>
        /\ StrLength(tasks[i].title) <= 200

C17_Witness ==
    /\ req.method = "PUT" /\ Known
    /\ req.body = One("title", Str(<<"W200", "b">>))
    /\ res.status = 400
    /\ StrLength(TaskOf(tasks, req.id).title) = 200

\* C18 (as claimed): description and assignee of every stored task are
\* strings, and the description has at most 2000 characters.
C18_DescriptionAssigneeStrings ==
    \A i \in 1..Len(tasks) :
        /\ IsString(tasks[i].description)
        /\ IsString(tasks[i].assignee)
        /\ StrLength(tasks[i].description) <= 2000

\* C19: updatedAt of every stored task is greater than or equal to its
\* createdAt.
C19_UpdatedNotBeforeCreated ==
    \A i \in 1..Len(tasks) : tasks[i].updatedAt >= tasks[i].createdAt

C19_Witness ==
    /\ req.method = "PUT" /\ res.status = 200
    /\ "updatedAt" \in DOMAIN req.body
    /\ req.body.updatedAt < TaskOf(tasks, req.id).createdAt
    /\ TaskOf(tasks, req.id).updatedAt = TaskOf(tasks, req.id).createdAt

Defaults ==
    [ status |-> Str(<<VALID_STATUSES[1]>>),
      description |-> Str(<<>>),
      assignee |-> Str(<<>>),
      dueDate |-> Str(<<>>) ]

\* C20: a successful POST answers 201 with a task whose omitted fields have
\* their defaults (status Idea, the others the empty string), and the task
\* is appended at the end of the collection.
C20_DefaultsAndAppend ==
    (req.method = "POST" /\ res.status = 201) =>
        /\ \A k \in DOMAIN Defaults :
              k \notin DOMAIN req.body => res.body[k] = Defaults[k]
        /\ Len(tasks) = Len(preTasks) + 1
        /\ SubSeq(tasks, 1, Len(preTasks)) = preTasks
        /\ tasks[Len(tasks)] = res.body

C20_Witness ==
    /\ req.method = "POST" /\ res.status = 201
    /\ DOMAIN req.body = {"title", "assignee"}
    /\ res.body.status = Str(<<"Idea">>)
    /\ res.body.description = Str(<<>>)
    /\ Len(preTasks) = 2

\* the ids of a collection, in its order
IdsInOrder(ts) == [i \in 1..Len(ts) |-> ts[i].id]

C33_WitnessDelete ==
    /\ req.method = "DELETE" /\ res.status = 200
    /\ Len(preTasks) = 2
    /\ FindIndex(preTasks, req.id) = 1
    /\ Len(tasks) = 1

\* the request carries a description or assignee on which .trim() or .length
\* throws in the handler that serves it
Throwing ==
    LET description == Get(req.body, "description")
        assignee == Get(req.body, "assignee")
    IN  IF req.method = "POST"
        THEN \/ (description # Undefined /\ ~IsString(description))
             \/ (assignee # Undefined /\ ~IsString(assignee))
        ELSE /\ req.method = "PUT"
             /\ Known
             /\ \/ description = Null
                \/ (Truthy(description) /\ ~IsString(description))
                \/ (Truthy(assignee) /\ ~IsString(assignee))

\* C34: a POST, PUT or DELETE whose handler raises an unexpected exception
\* (a create or update whose description or assignee is not a string, once it
\* is past the validations) answers 500 with the generic message 'Internal
\* server error' and leaves the collection unchanged.
C34_ExceptionIsGeneric500 ==
    /\ (req.method \in {"POST", "PUT", "DELETE"} /\ res.status = 500) =>
           /\ res.body = [error |-> "Internal server error"]
           /\ tasks = preTasks
    /\ (Throwing /\ res.status # 400) => res.status = 500

\* an update of a stored task threw in the trim lines
C34_Witness ==
    /\ req.method = "PUT" /\ res.status = 500
    /\ Known
    /\ Get(req.body, "description") = Num("5")
    /\ Len(tasks) = 2

\* a create threw at description.trim()
C34_WitnessPost ==
    /\ req.method = "POST" /\ res.status = 500
    /\ Get(req.body, "description") = Null
    /\ Len(tasks) = 1

(* ============================ the clients ============================= *)
(* project_management_app.jsx (the board client, variant "board"), the     *)
(* App component that follows the README in the second unnamed file        *)
(* (variant "merge") and the first, server-less board (variant "local").   *)
(* One client runs against the server; an async handler that has reached   *)
(* `await fetch(...)` is an entry of `inflight` until its response or its   *)
(* transport error is delivered, and deliveries come in any order.         *)

\* STATUS_ORDER of project_management_app.jsx and of App.jsx
STATUS_ORDER ==
    <<"Idea", "Assigned", "Drafting", "Editing", "Fact-Check", "Scheduled", "Published">>

\* STATUS_ORDER of the server-less board: its fifth name is written with the
\* non-breaking hyphen U+2011 where the others have the ASCII hyphen-minus
STATUS_ORDER_local ==
    <<"Idea", "Assigned", "Drafting", "Editing", "Fact<U+2011>Check", "Scheduled", "Published">>

\* the list the running client renders its columns and its status select from
StatusOrder == IF variant = "local" THEN STATUS_ORDER_local ELSE STATUS_ORDER

Columns == { Str(<<StatusOrder[i]>>) : i \in 1..Len(StatusOrder) }

\* the columns a card is dropped on in the runs explored
DropColumns == { Str(<<STATUS_ORDER[1]>>), Str(<<STATUS_ORDER[4]>>) }

\* response.ok
Ok(r) == r.status \in 200..299

NoResponse == [status |-> 0, body |-> <<>>]

IsNull(v) == v = Null

\* an async handler suspended at `await fetch(url, {method, body})`; `closure` is
\* the `tasks` array its continuation reads
Call(caller, method, id, body, closure) ==
    [ caller |-> caller, method |-> method, id |-> id, body |-> body,
      tasks |-> closure, state |-> "sent", res |-> NoResponse ]

RemoveAt(seq, i) == SubSeq(seq, 1, i - 1) \o SubSeq(seq, i + 1, Len(seq))

\* if (loading) return <spinner>: nothing else is on the page
Rendered == variant = "local" \/ ~loading

\* the cards renderColumnTasks() puts on the page
Cards ==
    { i \in 1..Len(clientTasks) :
        /\ "status" \in DOMAIN clientTasks[i]
        /\ clientTasks[i].status \in Columns
        /\ "id" \in DOMAIN clientTasks[i] }

dialogVars == <<isDialogOpen, editingTask, formData, submitting>>

listVars == <<clientTasks, loading, error>>

dragVars == <<draggedTaskId, dragging>>

\* the user events explored: the server-less board needs six for two tasks
OpsBound == IF variant = "local" THEN MaxLocalOps ELSE MaxOps

\* bookkeeping of a click, a key stroke, a drag or a drop
UserEvent(op, id, arg) ==
    /\ ops < OpsBound
    /\ ops' = ops + 1
    /\ last' = [op |-> op, id |-> id, arg |-> arg, caller |-> op, failed |-> last.failed]
    /\ UNCHANGED <<variant, serverVars>>

\* bookkeeping of a continuation that runs when fetch() settles; `failed` records
\* that some call so far was rejected or answered with an error status
Continued(op, c) ==
    /\ last' = [op |-> op, id |-> c.id, arg |-> Null, caller |-> c.caller,
                failed |-> \/ last.failed
                           \/ op \in {"fetchFailed", "mutationFailed", "rejected"}
                           \/ (op = "responded" /\ ~Ok(c.res))]
    /\ UNCHANGED <<variant, serverVars, ops, dragging>>

(* ----------------------------- the server ----------------------------- *)
\* the server's answer to an in-flight request, by the handlers above
Answer(c) ==
    IF c.method = "POST" THEN PostResult(tasks, c.body, uuidv4, now, now)
    ELSE IF c.method = "PUT" THEN PutResult(tasks, c.id, c.body, now)
    ELSE IF c.method = "DELETE" THEN DeleteResult(tasks, c.id)
    ELSE [r |-> GetResult(tasks, NoQuery), ts |-> tasks]

\* the request of call i reaches the server and is handled
Serve(i) ==
    /\ inflight[i].state = "sent"
    /\ tasks' = Answer(inflight[i]).ts
    /\ uuidCount' = IF inflight[i].method = "POST"
                       /\ Answer(inflight[i]).r.status \in {201, 500}
                    THEN uuidCount + 1 ELSE uuidCount
    /\ inflight' = [inflight EXCEPT ![i].state = "answered", ![i].res = Answer(inflight[i]).r]
    /\ UNCHANGED <<now, req, res, preTasks, created, deleted, preDeleted, calls>>
    /\ UNCHANGED <<variant, listVars, dialogVars, dragVars, last, ops>>

(* ------------------ project_management_app.jsx: events ---------------- *)
\* useEffect(() => { fetchTasks(); }, [fetchTasks]) after the first render
Mount ==
    /\ variant \in {"board", "merge"}
    /\ last.op = "none"
    /\ last' = [op |-> "mount", id |-> NoTaskId, arg |-> Null, caller |-> "fetchTasks",
                failed |-> FALSE]
    /\ loading' = TRUE
    /\ error' = Null
    /\ inflight' = Append(inflight, Call("fetchTasks", "GET", NoTaskId, EmptyBody, <<>>))
    /\ UNCHANGED <<variant, serverVars, ops, clientTasks, dialogVars, dragVars>>

\* mutant: resetForm() without setEditingTask(null)
ResetForm_KeepsSelection ==
    /\ formData' = EmptyForm
    /\ UNCHANGED editingTask

\* resetForm()
ResetForm ==
    /\ formData' = EmptyForm
    /\ editingTask' = NoTask

\* the New Task button: openCreateDialog()
OpenCreateDialog ==
    /\ variant = "board"
    /\ Rendered
    /\ ~dragging
    /\ UserEvent("openCreateDialog", NoTaskId, Null)
    /\ ResetForm
    /\ isDialogOpen' = TRUE
    /\ UNCHANGED <<listVars, submitting, dragVars, inflight>>

\* v || ""
OrEmpty(v) == IF Truthy(v) THEN v ELSE Str(<<>>)

\* the form openEditDialog(task) fills in
FormOf(task) ==
    [ title |-> task.title,
      description |-> OrEmpty(task.description),
      assignee |-> OrEmpty(task.assignee),
      status |-> task.status,
      dueDate |-> OrEmpty(task.dueDate) ]

\* a click on card i: openEditDialog(task)
OpenEditDialog(i) ==
    /\ variant = "board"
    /\ Rendered
    /\ ~dragging
    /\ i \in Cards
    /\ UserEvent("openEditDialog", clientTasks[i].id, Null)
    /\ editingTask' = clientTasks[i]
    /\ formData' = FormOf(clientTasks[i])
    /\ isDialogOpen' = TRUE
    /\ UNCHANGED <<listVars, submitting, dragVars, inflight>>

\* what is typed into the form in the runs explored: <<field, new value>>
FormInputs ==
    { <<"title", Str(<<" ">>)>>, <<"title", Str(<<"a">>)>>,
      <<"title", Str(<<"W200", "b">>)>>, <<"description", Str(<<"d">>)>> }

\* the maxLength attribute of the board client's inputs
MaxLength(name) == IF name = "title" THEN 200 ELSE 2000

\* handleInputChange(e): setFormData({ ...formData, [name]: value })
HandleInputChange(name, value) ==
    /\ variant \in {"board", "merge", "local"}
    /\ Rendered
    /\ ~dragging
    /\ isDialogOpen
    /\ variant = "board" => StrLength(value) <= MaxLength(name)
    /\ UserEvent("handleInputChange", NoTaskId, value)
    /\ formData' = Spread(formData, One(name, value))
    /\ UNCHANGED <<listVars, isDialogOpen, editingTask, submitting, dragVars, inflight>>

\* handleStatusChange(value), from the Select of the form
HandleStatusChange(value) ==
    /\ variant \in {"board", "local"}
    /\ Rendered
    /\ ~dragging
    /\ isDialogOpen
    /\ UserEvent("handleStatusChange", NoTaskId, value)
    /\ formData' = Spread(formData, One("status", value))
    /\ UNCHANGED <<listVars, isDialogOpen, editingTask, submitting, dragVars, inflight>>

\* mutant: if (!formData.title) return, without trim()
SubmitRefused_NoTrim(form) == ~Truthy(form.title)

\* if (!formData.title.trim()) return
SubmitRefused(form) == ~Truthy(Trim(form.title))

\* the request handleSubmit sends: PUT for the task being edited, else POST
SubmitCall ==
    IF editingTask = NoTask
    THEN Call("handleSubmit", "POST", NoTaskId, formData, <<>>)
    ELSE Call("handleSubmit", "PUT", editingTask.id, formData, <<>>)

\* the Add Task / Save Changes button (disabled while submitting): handleSubmit()
HandleSubmit ==
    /\ variant = "board"
    /\ Rendered
    /\ ~dragging
    /\ isDialogOpen
    /\ ~submitting
    /\ UserEvent("handleSubmit", NoTaskId, formData.title)
    /\ IF SubmitRefused(formData)
       THEN UNCHANGED <<submitting, inflight>>
       ELSE /\ submitting' = TRUE
            /\ inflight' = Append(inflight, SubmitCall)
    /\ UNCHANGED <<listVars, isDialogOpen, editingTask, formData, dragVars>>

\* the Cancel button: resetForm(); setDialogOpen(false)
Cancel ==
    /\ variant = "board"
    /\ Rendered
    /\ ~dragging
    /\ isDialogOpen
    /\ UserEvent("cancel", NoTaskId, Null)
    /\ ResetForm
    /\ isDialogOpen' = FALSE
    /\ UNCHANGED <<listVars, submitting, dragVars, inflight>>

\* <Dialog onOpenChange={setDialogOpen}>: the dialog asks to be closed
\* (Escape, a click outside it) and the setter takes the value
OnOpenChange(open) ==
    /\ variant \in {"board", "local"}
    /\ Rendered
    /\ ~dragging
    /\ isDialogOpen
    /\ UserEvent("onOpenChange", NoTaskId, Null)
    /\ isDialogOpen' = open
    /\ UNCHANGED <<listVars, editingTask, formData, submitting, dragVars, inflight>>

\* the X of card i: deleteTask(task.id), after window.confirm()
DeleteTask(i, confirmed) ==
    /\ variant = "board"
    /\ Rendered
    /\ ~dragging
    /\ i \in Cards
    /\ UserEvent("deleteTask", clientTasks[i].id, Null)
    /\ inflight' = IF confirmed
                   THEN Append(inflight,
                               Call("deleteTask", "DELETE", clientTasks[i].id, EmptyBody, <<>>))
                   ELSE inflight
    /\ UNCHANGED <<listVars, dialogVars, dragVars>>

\* the Retry link of the error banner: setError(null); fetchTasks()
Retry ==
    /\ variant = "board"
    /\ Rendered
    /\ ~dragging
    /\ ~IsNull(error)
    /\ UserEvent("retry", NoTaskId, Null)
    /\ error' = Null
    /\ loading' = TRUE
    /\ inflight' = Append(inflight, Call("fetchTasks", "GET", NoTaskId, EmptyBody, <<>>))
    /\ UNCHANGED <<clientTasks, dialogVars, dragVars>>

\* tasks.find((t) => t.id === id): its index, 0 when there is none
FindTask(ts, id) ==
    IF \E i \in 1..Len(ts) : "id" \in DOMAIN ts[i] /\ ts[i].id = id
    THEN CHOOSE i \in 1..Len(ts) :
             /\ "id" \in DOMAIN ts[i] /\ ts[i].id = id
             /\ \A j \in 1..(i - 1) : ~("id" \in DOMAIN ts[j] /\ ts[j].id = id)
    ELSE 0

\* the App overlay (fixed inset-0) covers the page while its dialog is open
Uncovered == variant = "merge" => ~isDialogOpen

\* onDragStart of card i: setDraggedTaskId(taskId) / dataTransfer.setData('taskId', taskId)
HandleDragStart(i) ==
    /\ variant \in {"board", "merge"}
    /\ Rendered
    /\ Uncovered
    /\ ~dragging
    /\ i \in Cards
    /\ UserEvent("handleDragStart", clientTasks[i].id, Null)
    /\ draggedTaskId' = clientTasks[i].id
    /\ dragging' = TRUE
    /\ UNCHANGED <<listVars, dialogVars, inflight>>

\* mutant: the drop handler does not test that tasks.find() found the task
DropSends_NoLookup(status) ==
    /\ draggedTaskId # NoTaskId
    /\ FindTask(clientTasks, draggedTaskId) # 0 =>
           clientTasks[FindTask(clientTasks, draggedTaskId)].status # status

\* mutant: the drop handler does not compare the column with the task's status
DropSends_AnyColumn(status) ==
    /\ draggedTaskId # NoTaskId
    /\ FindTask(clientTasks, draggedTaskId) # 0

\* if (draggedTaskId) { task = tasks.find(...); if (task && task.status !== status) ...
DropSends(status) ==
    /\ draggedTaskId # NoTaskId
    /\ FindTask(clientTasks, draggedTaskId) # 0
    /\ clientTasks[FindTask(clientTasks, draggedTaskId)].status # status

\* mutant: the whole task is sent, as App.jsx does: { ...task, status: newStatus }
UpdateCall_WholeTask(taskId, newStatus) ==
    Call("handleDrop", "PUT", taskId,
         Spread(clientTasks[FindTask(clientTasks, taskId)], One("status", newStatus)), <<>>)

\* updateTaskStatus(taskId, newStatus) up to its fetch
UpdateCall(taskId, newStatus) ==
    Call("handleDrop", "PUT", taskId, One("status", newStatus), <<>>)

\* onDrop of a column: handleDrop(e, status); setDraggedTaskId(null) comes after the await
HandleDrop(status) ==
    /\ variant = "board"
    /\ Rendered
    /\ dragging
    /\ UserEvent("handleDrop", draggedTaskId, status)
    /\ dragging' = FALSE
    /\ IF DropSends(status)
       THEN /\ inflight' = Append(inflight, UpdateCall(draggedTaskId, status))
            /\ UNCHANGED draggedTaskId
       ELSE /\ draggedTaskId' = NoTaskId
            /\ UNCHANGED inflight
    /\ UNCHANGED <<listVars, dialogVars>>

\* the card is released outside every column (or the columns are gone, the
\* page showing the spinner): no handler is registered for dragend. The
\* dataTransfer of App.jsx ends with the drag.
DragEnd ==
    /\ variant \in {"board", "merge"}
    /\ dragging
    /\ UserEvent("dragEnd", draggedTaskId, Null)
    /\ dragging' = FALSE
    /\ draggedTaskId' = IF variant = "merge" THEN NoTaskId ELSE draggedTaskId
    /\ UNCHANGED <<listVars, dialogVars, inflight>>

(* -------------- project_management_app.jsx: continuations ------------- *)
\* err.message of the TypeError fetch() rejects with
NetworkError == Str(<<"Failed to fetch">>)

\* mutant: a failed fetch empties the list
FetchSettled_ClearsList(i, ok, msg) ==
    /\ clientTasks' = IF ok THEN inflight[i].res.body ELSE <<>>
    /\ error' = IF ok THEN error ELSE msg
    /\ loading' = FALSE
    /\ inflight' = RemoveAt(inflight, i)
    /\ IF inflight[i].caller = "handleSubmit"
       THEN ResetForm /\ isDialogOpen' = FALSE /\ submitting' = FALSE
       ELSE UNCHANGED dialogVars
    /\ draggedTaskId' = IF inflight[i].caller = "handleDrop" THEN NoTaskId ELSE draggedTaskId
    /\ Continued(IF ok THEN "fetched" ELSE "fetchFailed", inflight[i])

\* the rest of fetchTasks() once its fetch has settled, then the rest of the
\* handler that awaited it
FetchSettled(i, ok, msg) ==
    /\ clientTasks' = IF ok THEN inflight[i].res.body ELSE clientTasks
    /\ error' = IF ok THEN error ELSE msg
    /\ loading' = FALSE
    /\ inflight' = RemoveAt(inflight, i)
    /\ IF inflight[i].caller = "handleSubmit"
       THEN ResetForm /\ isDialogOpen' = FALSE /\ submitting' = FALSE
       ELSE UNCHANGED dialogVars
    /\ draggedTaskId' = IF inflight[i].caller = "handleDrop" THEN NoTaskId ELSE draggedTaskId
    /\ Continued(IF ok THEN "fetched" ELSE "fetchFailed", inflight[i])

\* mutant: the task of the call is also dropped from the local list at once
MutationOk_PatchesList(i) ==
    /\ loading' = TRUE
    /\ error' = Null
    /\ inflight' = [inflight EXCEPT
                      ![i] = Call(inflight[i].caller, "GET", NoTaskId, EmptyBody, <<>>)]
    /\ clientTasks' = SelectSeq(clientTasks, LAMBDA t : t.id # inflight[i].id)
    /\ UNCHANGED <<dialogVars, draggedTaskId>>
    /\ Continued("mutationOk", inflight[i])

\* a mutating call answered ok: `await fetchTasks()` starts the refetch
MutationOk(i) ==
    /\ loading' = TRUE
    /\ error' = Null
    /\ inflight' = [inflight EXCEPT
                      ![i] = Call(inflight[i].caller, "GET", NoTaskId, EmptyBody, <<>>)]
    /\ UNCHANGED <<clientTasks, dialogVars, draggedTaskId>>
    /\ Continued("mutationOk", inflight[i])

\* the message thrown for a response that is not ok
FailureMessage(c) ==
    IF c.caller = "handleSubmit"
    THEN Str(<<c.res.body.error>>)      \* errorData.error || "Failed to save task"
    ELSE IF c.caller = "deleteTask" THEN Str(<<"Failed to delete task">>)
    ELSE Str(<<"Failed to update task status">>)

\* mutant: the catch block also resets the form and closes the dialog
MutationFailed_ClosesDialog(i, msg) ==
    /\ error' = msg
    /\ submitting' = IF inflight[i].caller = "handleSubmit" THEN FALSE ELSE submitting
    /\ draggedTaskId' = IF inflight[i].caller = "handleDrop" THEN NoTaskId ELSE draggedTaskId
    /\ inflight' = RemoveAt(inflight, i)
    /\ ResetForm
    /\ isDialogOpen' = FALSE
    /\ UNCHANGED <<clientTasks, loading>>
    /\ Continued("mutationFailed", inflight[i])

\* catch (err) { setError(err.message) } and the finally / the line after the await
MutationFailed(i, msg) ==
    /\ error' = msg
    /\ submitting' = IF inflight[i].caller = "handleSubmit" THEN FALSE ELSE submitting
    /\ draggedTaskId' = IF inflight[i].caller = "handleDrop" THEN NoTaskId ELSE draggedTaskId
    /\ inflight' = RemoveAt(inflight, i)
    /\ UNCHANGED <<clientTasks, loading, isDialogOpen, editingTask, formData>>
    /\ Continued("mutationFailed", inflight[i])

\* the response of call i arrives and the handler resumes
Respond(i) ==
    /\ variant = "board"
    /\ inflight[i].state = "answered"
    /\ IF inflight[i].method = "GET"
       THEN FetchSettled(i, Ok(inflight[i].res), Str(<<"Failed to fetch tasks">>))
       ELSE IF Ok(inflight[i].res)
       THEN MutationOk(i)
       ELSE MutationFailed(i, FailureMessage(inflight[i]))

\* fetch() of call i rejects: the request or its response is lost
Reject(i) ==
    /\ variant = "board"
    /\ IF inflight[i].method = "GET"
       THEN FetchSettled(i, FALSE, NetworkError)
       ELSE MutationFailed(i, NetworkError)

(* ------------------------------ App.jsx ------------------------------- *)
\* the New Task button of App.jsx and of the server-less board: setDialogOpen(true)
NewTaskClick ==
    /\ variant \in {"merge", "local"}
    /\ Rendered
    /\ Uncovered
    /\ UserEvent("newTask", NoTaskId, Null)
    /\ isDialogOpen' = TRUE
    /\ UNCHANGED <<listVars, editingTask, formData, submitting, dragVars, inflight>>

\* the X and the Cancel button of the App.jsx dialog: setDialogOpen(false)
CloseDialog ==
    /\ variant = "merge"
    /\ Rendered
    /\ isDialogOpen
    /\ UserEvent("closeDialog", NoTaskId, Null)
    /\ isDialogOpen' = FALSE
    /\ UNCHANGED <<listVars, editingTask, formData, submitting, dragVars, inflight>>

\* addTask() up to its fetch; the continuation keeps this render's `tasks`
AddTask ==
    /\ variant = "merge"
    /\ Rendered
    /\ isDialogOpen
    /\ UserEvent("addTask", NoTaskId, formData.title)
    /\ inflight' = IF SubmitRefused(formData)
                   THEN inflight
                   ELSE Append(inflight, Call("addTask", "POST", NoTaskId, formData, clientTasks))
    /\ UNCHANGED <<listVars, dialogVars, dragVars>>

\* the X of card i: deleteTask(task.id) up to its fetch
MergeDeleteTask(i) ==
    /\ variant = "merge"
    /\ Rendered
    /\ Uncovered
    /\ ~dragging
    /\ i \in Cards
    /\ UserEvent("deleteTask", clientTasks[i].id, Null)
    /\ inflight' = Append(inflight,
                          Call("deleteTask", "DELETE", clientTasks[i].id, EmptyBody, clientTasks))
    /\ UNCHANGED <<listVars, dialogVars, dragVars>>

\* JSON.stringify({ ...task, status: newStatus }); task is undefined when not found
MergeUpdateBody(ts, taskId, newStatus) ==
    IF FindTask(ts, taskId) = 0
    THEN One("status", newStatus)
    ELSE Spread(ts[FindTask(ts, taskId)], One("status", newStatus))

\* onDrop of a column: handleDrop -> updateTaskStatus(taskId, status) up to its fetch
MergeDrop(status) ==
    /\ variant = "merge"
    /\ Rendered
    /\ dragging
    /\ UserEvent("handleDrop", draggedTaskId, status)
    /\ dragging' = FALSE
    /\ draggedTaskId' = NoTaskId
    /\ inflight' = Append(inflight,
                          Call("updateTaskStatus", "PUT", draggedTaskId,
                               MergeUpdateBody(clientTasks, draggedTaskId, status), clientTasks))
    /\ UNCHANGED <<listVars, dialogVars>>

\* tasks.filter((t) => t.id !== taskId)
WithoutId(ts, taskId) ==
    SelectSeq(ts, LAMBDA t : ~("id" \in DOMAIN t /\ t.id = taskId))

\* tasks.map(t => t.id === taskId ? updatedTask : t)
Replaced(ts, taskId, updatedTask) ==
    [j \in 1..Len(ts) |->
        IF "id" \in DOMAIN ts[j] /\ ts[j].id = taskId THEN updatedTask ELSE ts[j]]

\* the list the continuation of call c sets from the parsed response body
Merged(c) ==
    IF c.method = "GET" THEN c.res.body
    ELSE IF c.method = "POST" THEN Append(c.tasks, c.res.body)
    ELSE IF c.method = "DELETE" THEN WithoutId(c.tasks, c.id)
    ELSE Replaced(c.tasks, c.id, c.res.body)

\* the response of call i arrives: response.json(), then setTasks(...)
MergeRespond(i) ==
    /\ variant = "merge"
    /\ inflight[i].state = "answered"
    /\ clientTasks' = Merged(inflight[i])
    /\ loading' = IF inflight[i].method = "GET" THEN FALSE ELSE loading
    /\ formData' = IF inflight[i].method = "POST" THEN EmptyForm ELSE formData
    /\ isDialogOpen' = IF inflight[i].method = "POST" THEN FALSE ELSE isDialogOpen
    /\ inflight' = RemoveAt(inflight, i)
    /\ UNCHANGED <<error, editingTask, submitting, draggedTaskId>>
    /\ Continued("responded", inflight[i])

\* fetch() of call i rejects: console.error, and fetchTasks' finally
MergeReject(i) ==
    /\ variant = "merge"
    /\ loading' = IF inflight[i].method = "GET" THEN FALSE ELSE loading
    /\ inflight' = RemoveAt(inflight, i)
    /\ UNCHANGED <<clientTasks, error, dialogVars, draggedTaskId>>
    /\ Continued("rejected", inflight[i])

(* ------------------------ the server-less board ----------------------- *)
\* { id: Date.now().toString(), ...formData }
LocalTask(id, form) == Spread(One("id", id), form)

\* addTask(): the clock may stand still since the last click (d = 0)
LocalAddTask(d) ==
    /\ variant = "local"
    /\ isDialogOpen
    /\ now + d <= MaxClock
    /\ ops < OpsBound
    /\ ops' = ops + 1
    /\ now' = now + d
    /\ last' = [op |-> "addTask", id |-> NoTaskId, arg |-> formData.title, caller |-> "addTask",
                failed |-> FALSE]
    /\ IF SubmitRefused(formData)
       THEN UNCHANGED <<clientTasks, formData, isDialogOpen>>
       ELSE /\ clientTasks' = Append(clientTasks, LocalTask(now + d, formData))
            /\ formData' = EmptyForm
            /\ isDialogOpen' = FALSE
    /\ UNCHANGED <<variant, tasks, uuidCount, req, res, preTasks, created, deleted, preDeleted,
                   calls, loading, error, editingTask, submitting, dragVars, inflight>>

\* the X of card i: deleteTask(task.id)
LocalDeleteTask(i) ==
    /\ variant = "local"
    /\ i \in Cards
    /\ UserEvent("deleteTask", clientTasks[i].id, Null)
    /\ clientTasks' = WithoutId(clientTasks, clientTasks[i].id)
    /\ UNCHANGED <<loading, error, dialogVars, dragVars, inflight>>

(* ------------------------- client specification ----------------------- *)
\* the stages chosen in the status select in the runs explored: Editing, and
\* the fifth stage where the client's list differs from the board's
StatusInputs ==
    {Str(<<StatusOrder[4]>>)}
    \cup (IF StatusOrder = STATUS_ORDER THEN {} ELSE {Str(<<StatusOrder[5]>>)})

MaxSeed == 2

\* the tasks created before the client is opened: odd ones in Idea, even in Editing
SeedForm(n) ==
    IF n % 2 = 1
    THEN [EmptyForm EXCEPT !.title = Str(<<"s">>)]
    ELSE [EmptyForm EXCEPT !.title = Str(<<"t">>), !.status = Str(<<"Editing">>)]

RECURSIVE Seeded(_)
\* the collection after n such POSTs
Seeded(n) ==
    IF n = 0 THEN <<>> ELSE PostResult(Seeded(n - 1), SeedForm(n), n, 0, 0).ts

\* one client is constructed against a server that holds up to MaxSeed tasks
ClientInit ==
    /\ variant \in {"board", "merge", "local"}
    /\ Constructed
    /\ \E n \in 0..MaxSeed : tasks = Seeded(n) /\ uuidCount = n
    /\ now = 0
    /\ req = [method |-> "NONE", id |-> 0, body |-> EmptyBody, query |-> NoQuery]
    /\ res = [status |-> 0, body |-> <<>>]
    /\ preTasks = <<>>
    /\ created = <<>>
    /\ deleted = {}
    /\ preDeleted = {}
    /\ calls = 0

ClientNext ==
    \/ Mount
    \/ OpenCreateDialog
    \/ \E i \in 1..Len(clientTasks) : OpenEditDialog(i)
    \/ \E f \in FormInputs : HandleInputChange(f[1], f[2])
    \/ \E value \in StatusInputs : HandleStatusChange(value)
    \/ HandleSubmit
    \/ Cancel
    \/ OnOpenChange(FALSE)
    \/ \E i \in 1..Len(clientTasks), confirmed \in BOOLEAN : DeleteTask(i, confirmed)
    \/ Retry
    \/ \E i \in 1..Len(clientTasks) : HandleDragStart(i)
    \/ \E status \in DropColumns : HandleDrop(status)
    \/ DragEnd
    \/ \E i \in 1..Len(inflight) : Serve(i)
    \/ \E i \in 1..Len(inflight) : Respond(i)
    \/ \E i \in 1..Len(inflight) : Reject(i)
    \/ NewTaskClick
    \/ CloseDialog
    \/ AddTask
    \/ \E i \in 1..Len(clientTasks) : MergeDeleteTask(i)
    \/ \E status \in DropColumns : MergeDrop(status)
    \/ \E i \in 1..Len(inflight) : MergeRespond(i)
    \/ \E i \in 1..Len(inflight) : MergeReject(i)
    \/ \E d \in 0..1 : LocalAddTask(d)
    \/ \E i \in 1..Len(clientTasks) : LocalDeleteTask(i)

ClientSpec == ClientInit /\ [][ClientNext]_vars

(* =========================== client claims ============================ *)
\* nothing is awaited and no card is held: no step but a new user event follows
Quiet == inflight = <<>> /\ ~dragging

\* C21: in the board client every drag that has started returns the drag
\* state to idle, after a drop on a column and after a release outside every
\* column: once the drag is over and nothing is awaited, draggedTaskId is null.
C21_DragReturnsToIdle ==
    (variant = "board" /\ Quiet) => draggedTaskId = NoTaskId

\* the local task a task id names (the id is in the list)
LocalTaskOf(id) == clientTasks[FindTask(clientTasks, id)]

\* this step is the user event `op` of the board client
BoardEvent(op) == variant = "board" /\ ops' = ops + 1 /\ last'.op = op

\* C22: in the board client a drop of the dragged task on the column of that
\* task's current local status sends no request and changes neither the local
\* list nor the server collection.
C22_SameColumnDropIsNoOp ==
    [][ ( /\ BoardEvent("handleDrop")
          /\ FindTask(clientTasks, draggedTaskId) # 0
          /\ LocalTaskOf(draggedTaskId).status = last'.arg )
        => UNCHANGED <<inflight, clientTasks, tasks>> ]_vars

\* a card was dropped on its own column, and nothing is in flight
C22_Witness ==
    /\ variant = "board"
    /\ last.op = "handleDrop"
    /\ FindTask(clientTasks, last.id) # 0
    /\ LocalTaskOf(last.id).status = last.arg
    /\ LocalTaskOf(last.id) = TaskOf(tasks, last.id)
    /\ inflight = <<>>
    /\ draggedTaskId = NoTaskId

\* a full refetch: GET /tasks without a query, not yet answered
IsRefetch(c) ==
    /\ c.method = "GET"
    /\ c.body = EmptyBody
    /\ c.state \in {"sent", "answered"}

\* C23: in the board client a drop of the dragged task on a column whose
\* status differs from the task's local status sends exactly one PUT for that
\* task's id whose body holds only status, the column's stage; and when the
\* answer to it is positive the client issues a full refetch of the list.
C23_DropSendsStatusThenRefetches ==
    /\ [][ ( /\ BoardEvent("handleDrop")
             /\ FindTask(clientTasks, draggedTaskId) # 0
             /\ LocalTaskOf(draggedTaskId).status # last'.arg )
           => inflight' = Append(inflight,
                                 [ caller |-> "handleDrop", method |-> "PUT",
                                   id |-> draggedTaskId, body |-> One("status", last'.arg),
                                   tasks |-> <<>>, state |-> "sent", res |-> NoResponse ]) ]_vars
    /\ []( ( variant = "board" /\ last.op = "mutationOk" /\ last.caller = "handleDrop" )
           => \E i \in 1..Len(inflight) :
                  inflight[i].caller = "handleDrop" /\ IsRefetch(inflight[i]) )

\* the PUT of a drop was answered 200 and the refetch it started is in flight
C23_Witness ==
    /\ variant = "board"
    /\ last.op = "mutationOk"
    /\ last.caller = "handleDrop"
    /\ Len(inflight) = 1
    /\ IsRefetch(inflight[1])
    /\ FindTask(tasks, last.id) # 0
    /\ TaskOf(tasks, last.id).status # LocalTaskOf(last.id).status

\* in this step the continuation of call i takes the body of a successful GET /tasks
FetchDelivered(i) ==
    /\ inflight[i].method = "GET"
    /\ inflight[i].state = "answered"
    /\ Ok(inflight[i].res)
    /\ clientTasks' = inflight[i].res.body
    /\ Len(inflight') = Len(inflight) - 1
    /\ last'.op = "fetched"

\* C24: in the board client the local task list changes only in a step in
\* which a GET /tasks that was answered successfully is delivered; a pending,
\* rejected or transport-failed create, update, delete or drop alters nothing.
C24_ListChangesOnlyOnFetch ==
    [][ (variant = "board" /\ clientTasks' # clientTasks)
        => \E i \in 1..Len(inflight) : FetchDelivered(i) ]_vars

\* the server refused a delete (the task was already gone) and the local
\* list still shows the task
C24_Witness ==
    /\ variant = "board"
    /\ last.op = "mutationFailed"
    /\ last.caller = "deleteTask"
    /\ error = Str(<<"Failed to delete task">>)
    /\ FindTask(clientTasks, last.id) # 0
    /\ FindTask(tasks, last.id) = 0

\* this step is the continuation `op` of a call of the board client that settled
BoardSettled(op) ==
    variant = "board" /\ Len(inflight') < Len(inflight) /\ last'.op = op

\* C25: in the board client, when a fetch or a mutating call fails (response
\* not ok, or transport error) the local list keeps its contents and the error
\* state is set; Retry clears the error and issues a new full fetch.
C25_FailureKeepsListAndRetryRefetches ==
    /\ [][ (BoardSettled("fetchFailed") \/ BoardSettled("mutationFailed"))
           => (clientTasks' = clientTasks /\ error' # Null) ]_vars
    /\ [][ BoardEvent("retry")
           => /\ error' = Null
              /\ clientTasks' = clientTasks
              /\ Len(inflight') = Len(inflight) + 1
              /\ IsRefetch(inflight'[Len(inflight')])
              /\ inflight'[Len(inflight')].state = "sent" ]_vars

\* the refetch after a delete failed with the list still shown; Retry was
\* activated and its fetch is in flight
C25_Witness ==
    /\ variant = "board"
    /\ last.op = "retry"
    /\ clientTasks # <<>>
    /\ Len(clientTasks) > Len(tasks)
    /\ error = Null
    /\ Len(inflight) = 1
    /\ IsRefetch(inflight[1])

\* C26: with one board client as the only writer and responses arriving in
\* any order, whenever no request is in flight and no call of the client has
\* failed (so its latest mutating call and its latest fetch succeeded), the
\* client's local task list equals the server collection.
C26_QuietListEqualsServer ==
    (variant = "board" /\ inflight = <<>> /\ last.op = "fetched" /\ ~last.failed)
        => clientTasks = tasks

\* this step is a click on the submit button of the task form, in any variant
Submitted == ops' = ops + 1 /\ last'.op \in {"handleSubmit", "addTask"}

\* C27: in every client variant, submitting the task form with a title that
\* is empty after trimming sends no request and leaves the task list, the form
\* contents and the dialog's open state unchanged.
C27_BlankTitleNotSubmitted ==
    [][ (Submitted /\ ~Truthy(Trim(formData.title)))
        => UNCHANGED <<inflight, tasks, clientTasks, formData, isDialogOpen>> ]_vars

\* a title of one blank was submitted in App.jsx: the dialog is still open
\* with the blank in the form and nothing was sent
C27_Witness ==
    /\ variant = "merge"
    /\ last.op = "addTask"
    /\ last.arg = Str(<<" ">>)
    /\ formData.title = Str(<<" ">>)
    /\ isDialogOpen
    /\ inflight = <<>>

\* the same in the board client and in the server-less board
C27_WitnessBoard ==
    /\ variant = "board"
    /\ last.op = "handleSubmit"
    /\ last.arg = Str(<<" ">>)
    /\ isDialogOpen
    /\ ~submitting
    /\ inflight = <<>>

C27_WitnessLocal ==
    /\ variant = "local"
    /\ last.op = "addTask"
    /\ last.arg = Str(<<" ">>)
    /\ isDialogOpen
    /\ clientTasks = <<>>

FormFields == {"title", "description", "assignee", "status", "dueDate"}

\* the form shows the fields of task t, an absent value as the empty string
FilledFrom(t) ==
    /\ DOMAIN formData = FormFields
    /\ formData.title = t.title
    /\ formData.status = t.status
    /\ \A k \in {"description", "assignee", "dueDate"} :
           formData[k] = IF Truthy(t[k]) THEN t[k] ELSE Str(<<>>)

\* C28: in the board client, after any history of dialog use, New Task opens
\* the dialog in create mode with an empty form (status Idea) and no task
\* selected for editing, and selecting a card opens it in edit mode with the
\* form filled from that card's task.
C28_DialogOpensInItsMode ==
    /\ (variant = "board" /\ last.op = "openCreateDialog")
           => ( /\ isDialogOpen
                /\ editingTask = NoTask
                /\ formData = [ title |-> Str(<<>>), description |-> Str(<<>>),
                                assignee |-> Str(<<>>), status |-> Str(<<"Idea">>),
                                dueDate |-> Str(<<>>) ] )
    /\ (variant = "board" /\ last.op = "openEditDialog")
           => ( /\ isDialogOpen
                /\ FindTask(clientTasks, last.id) # 0
                /\ editingTask = LocalTaskOf(last.id)
                /\ FilledFrom(LocalTaskOf(last.id)) )

\* New Task was activated after an edit dialog whose submit the server refused
\* (the task had been deleted meanwhile): create mode, empty form
C28_Witness ==
    /\ variant = "board"
    /\ last.op = "openCreateDialog"
    /\ error = Str(<<"Task not found">>)
    /\ isDialogOpen
    /\ editingTask = NoTask
    /\ formData = EmptyForm

\* a card of the Editing column was selected after the form had been used
C28_WitnessEdit ==
    /\ variant = "board"
    /\ last.op = "openEditDialog"
    /\ ops >= 3
    /\ formData.status = Str(<<"Editing">>)
    /\ formData.title = Str(<<"t">>)
    /\ editingTask.id = 2

\* this step ends a handleSubmit whose POST or PUT was answered ok: the
\* refetch it awaited has settled
SubmitDone ==
    /\ variant = "board"
    /\ Len(inflight') < Len(inflight)
    /\ last'.caller = "handleSubmit"
    /\ last'.op \in {"fetched", "fetchFailed"}

\* this step is the catch block of a handleSubmit whose POST or PUT failed
SubmitFailed == BoardSettled("mutationFailed") /\ last'.caller = "handleSubmit"

\* the dialog of the board client is closed by this step
DialogCloses == variant = "board" /\ isDialogOpen /\ ~isDialogOpen'

\* C29 as stated: in the board client the dialog goes from open to closed only
\* through Cancel or through a submit that the server answered positively; a
\* submit that fails leaves the dialog open with the form contents and the
\* edit selection unchanged.
C29_ClosedOnlyByCancelOrSubmit ==
    /\ [][ DialogCloses => (BoardEvent("cancel") \/ SubmitDone) ]_vars
    /\ [][ SubmitFailed => UNCHANGED <<isDialogOpen, formData, editingTask>> ]_vars

\* C29 amended: the dialog goes from open to closed only through Cancel,
\* through the Dialog's own close request (onOpenChange(false): Escape or a
\* click outside it, which keeps the form contents and the edit selection) or
\* through a submit that the server answered positively; a submit that fails
\* leaves the open state, the form contents and the edit selection unchanged.
C29_ClosedByCancelDismissOrSubmit ==
    /\ [][ DialogCloses
           => (BoardEvent("cancel") \/ BoardEvent("onOpenChange") \/ SubmitDone) ]_vars
    /\ [][ BoardEvent("onOpenChange") => UNCHANGED <<formData, editingTask>> ]_vars
    /\ [][ SubmitFailed => UNCHANGED <<isDialogOpen, formData, editingTask>> ]_vars

\* the PUT of an edit was refused (the task had been deleted): the dialog is
\* still open on that task with the form as submitted
C29_Witness ==
    /\ variant = "board"
    /\ last.op = "mutationFailed"
    /\ last.caller = "handleSubmit"
    /\ error = Str(<<"Task not found">>)
    /\ isDialogOpen
    /\ editingTask.id = last.id
    /\ editingTask # NoTask
    /\ formData.title = editingTask.title
    /\ ~submitting

\* in this step App.jsx takes delivery of the only call in flight, which the
\* server answered with a 4xx or 5xx status
ErrorAnswerDelivered ==
    /\ variant = "merge"
    /\ Len(inflight) = 1
    /\ inflight[1].state = "answered"
    /\ inflight[1].res.status >= 400
    /\ inflight' = <<>>
    /\ last'.op = "responded"

\* C30: in the merge-reconciling client a task is added to, removed from or
\* replaced in the local list only after the server answered the POST, DELETE
\* or PUT with a success status: a 4xx or 5xx answer leaves the list unchanged.
C30_ErrorAnswerLeavesList ==
    [][ ErrorAnswerDelivered => clientTasks' = clientTasks ]_vars

\* in this step App.jsx takes delivery of the last call in flight, a mutating
\* call the server answered positively; the step before delivered another
\* successful mutating call on a different task, and the list has changed since
\* this call was issued: the two were in flight at the same time
SecondOfTwoDelivered ==
    /\ variant = "merge"
    /\ Len(inflight) = 1
    /\ inflight[1].state = "answered"
    /\ inflight[1].method # "GET"
    /\ Ok(inflight[1].res)
    /\ last.op = "responded"
    /\ last.caller # "fetchTasks"
    /\ last.id # inflight[1].id
    /\ ~last.failed
    /\ inflight[1].tasks # clientTasks
    /\ inflight' = <<>>
    /\ last'.op = "responded"

\* C31: in the merge-reconciling client, when two mutating calls on different
\* tasks are in flight at the same time and both succeed, the local list after
\* both responses equals the server collection (it reflects both changes).
C31_ConcurrentMergesBothKept ==
    [][ SecondOfTwoDelivered => clientTasks' = tasks' ]_vars

\* this step is the user event `op` in App.jsx
MergeEvent(op) == variant = "merge" /\ ops' = ops + 1 /\ last'.op = op

\* C32: in the merge-reconciling client a drop of a task on the column of its
\* current status is a no-op: it sends no request, and so changes nothing on
\* the server.
C32_MergeSameColumnDropIsNoOp ==
    [][ ( /\ MergeEvent("handleDrop")
          /\ FindTask(clientTasks, last'.id) # 0
          /\ clientTasks[FindTask(clientTasks, last'.id)].status = last'.arg )
        => Len(inflight') = Len(inflight) ]_vars

\* C35: in the board client, after a drop on a column the drag state returns to
\* idle only once the status update and its refetch have settled: as long as
\* the update is awaited the drag state names the dropped task, and as long as
\* its refetch is awaited it names a task.
C35_DragStateHeldUntilSettled ==
    variant = "board" =>
        \A i \in 1..Len(inflight) :
            inflight[i].caller = "handleDrop" =>
                IF inflight[i].method = "PUT"
                THEN draggedTaskId = inflight[i].id
                ELSE draggedTaskId # NoTaskId

\* C36: in the board client a drop while the drag state names a task that is no
\* longer in the local list sends no request and returns the drag state to
\* idle; a drop while the drag state is idle sends no request.
C36_StaleOrIdleDropSendsNothing ==
    [][ ( /\ BoardEvent("handleDrop")
          /\ \/ draggedTaskId = NoTaskId
             \/ FindTask(clientTasks, draggedTaskId) = 0 )
        => /\ Len(inflight') = Len(inflight)
           /\ draggedTaskId' = NoTaskId ]_vars

\* a card was dropped whose task a refetch had removed from the list meanwhile
C36_Witness ==
    /\ variant = "board"
    /\ last.op = "handleDrop"
    /\ last.id # NoTaskId
    /\ FindTask(clientTasks, last.id) = 0
    /\ draggedTaskId = NoTaskId
    /\ inflight = <<>>

\* a card was dropped after an earlier drop's continuation had reset the drag state
C36_WitnessIdle ==
    /\ variant = "board"
    /\ last.op = "handleDrop"
    /\ last.id = NoTaskId
    /\ draggedTaskId = NoTaskId
    /\ ~dragging

\* C37: in the server-less variant no two tasks of the list share an id (so
\* that deleting by id removes exactly one task), also when tasks are added in
\* rapid succession.
C37_LocalIdsUnique ==
    variant = "local" =>
        \A i, j \in 1..Len(clientTasks) :
            i # j => clientTasks[i].id # clientTasks[j].id

\* C38: the stage list the client renders its columns from and offers in its
\* form is identical, element for element, to the list GET /api/statuses
\* returns, so that every stage of the list, the stage chosen in the form and
\* the stage of every task the client made pass the server's validation.
C38_StatusOrderMatchesServer ==
    /\ StatusOrder = StatusesResult.body
    /\ \A i \in 1..Len(StatusOrder) : ValidStatus(Str(<<StatusOrder[i]>>))
    /\ ValidStatus(formData.status)
    /\ variant = "local" => \A i \in 1..Len(clientTasks) : ValidStatus(clientTasks[i].status)
====
